---- MODULE Spec2Model ----
(***************************************************************************)
(* Model of scripts/run.py: the benchmark orchestrator.  One invocation of *)
(* main() is a process p; its position in main() is pc[p].  The filesystem *)
(* (run directory, coordinator copy, artifacts, candidate output           *)
(* locations) is shared state.  Time is counted in ticks; a calendar day   *)
(* is TicksPerDay consecutive ticks, the first of them being midnight.     *)
(***************************************************************************)
EXTENDS Integers, Sequences, FiniteSets, TLC

\* ---------------------------------------------------------------- bounds
TicksPerDay == 2      \* clock resolution: ticks in one calendar day
MaxDay == 1           \* dates and "today" range over 0..MaxDay
MaxTime == 4          \* commit times range over 1..MaxTime
MaxCommits == 2       \* commits on origin/main of one repository

\* ------------------------------------------------------------- constants
REPOS ==
  << "ClimaCoupler.jl", "ClimaAtmos.jl", "ClimaCore.jl",
     "ClimaTimesteppers.jl", "Thermodynamics.jl", "RRTMGP.jl" >>

NumRepos == Len(REPOS)

RepoSet == { REPOS[k] : k \in 1..NumRepos }

\* the two concurrent invocations considered for the same date
Procs == {1, 2}

\* configs (two entries) followed by the TOML parameter file
configs == << "amip_progedmf_1m_land_he16.yml", "climaatmos_progedmf_1m.yml",
              "amip_progedmf_1m.toml" >>

\* output_dirs: the candidate artifact locations, in search order
output_dirs == << "output", "experiments/ClimaEarth/output" >>

Cands == 1..Len(output_dirs)

\* ------------------------------------------------- commit resolution (pure)
\* A history of origin/main is the sequence of its commit times, oldest
\* first; the tip is the last element.  Commit times within one history are
\* distinct, so a commit's time also serves as its hexsha.
Times == 1..MaxTime

Histories ==
  { h \in UNION { [1..n -> Times] : n \in 0..MaxCommits } :
      \A a, b \in DOMAIN h : a # b => h[a] # h[b] }

None == [rev |-> 0, timestamp |-> 0]

DayOf(t) == t \div TicksPerDay

\* datetime.fromisoformat(date) + timedelta(days=1): midnight of day d+1
Until(d) == (d + 1) * TicksPerDay

Reverse(s) == [k \in 1..Len(s) |-> s[Len(s) + 1 - k]]

\* git log --until=<u> walks the first-parent chain from the tip and keeps
\* every commit whose committer time is not later than u (the bound is
\* inclusive).
IncludedByUntil(t, u) == t <= u

RECURSIVE FilterSeq(_, _)
FilterSeq(s, u) ==
  IF s = << >> THEN << >>
  ELSE IF IncludedByUntil(Head(s), u)
       THEN << Head(s) >> \o FilterSeq(Tail(s), u)
       ELSE FilterSeq(Tail(s), u)

iter_commits(h, u) == FilterSeq(Reverse(h), u)

\* the loop "for commit in commits: return {...}" returns the first commit
\* the iterator yields, and None when it yields nothing
get_latest_commit_at_date(h, d) ==
  LET commits == iter_commits(h, Until(d))
  IN  IF commits = << >> THEN None
      ELSE [rev |-> commits[1], timestamp |-> commits[1]]

\* a date check that lets the current day through
DateRefusedFutureOnly(d, now) == d > now

\* the date check at the top of get_latest_commit_at_date
DateRefused(d, now) == d >= now

\* ------------------------------------------------------------ filesystem
ManifestFile == "Manifest-v1.11.toml"

\* tree of the coordinator repository at a commit (git archive <rev>)
TreeOf(rev) ==
  {"run_amip.jl"} \cup (IF rev > 1 THEN {"added.jl"} ELSE {})

NoDir == [exists |-> FALSE, files |-> {}]

Dir(fs) == [exists |-> TRUE, files |-> fs]

OldRevs == [r \in RepoSet |-> [rev |-> 1, timestamp |-> 1]]

NoCand == [c \in Cands |-> "none"]

\* what an earlier invocation for the same date may have left behind
PriorStates ==
  { \* nothing: first invocation for the date
    [run_dir |-> FALSE, coupler |-> NoDir, manifest_copy |-> "none",
     revs_json |-> << >>, artifacts |-> << >>, cand |-> NoCand],
    \* aborted during environment assembly
    [run_dir |-> TRUE, coupler |-> Dir({"run_amip.jl", "removed.jl"}),
     manifest_copy |-> "none", revs_json |-> << >>, artifacts |-> << >>,
     cand |-> NoCand],
    \* ended with the "multiple artifacts directories" warning
    [run_dir |-> TRUE,
     coupler |-> Dir({"run_amip.jl", "removed.jl", ManifestFile}),
     manifest_copy |-> "old", revs_json |-> << OldRevs >>,
     artifacts |-> << >>, cand |-> [c \in Cands |-> "old"]],
    \* ran to the end: artifacts moved, coordinator copy removed
    [run_dir |-> TRUE, coupler |-> NoDir, manifest_copy |-> "old",
     revs_json |-> << OldRevs >>, artifacts |-> << "old" >>,
     cand |-> NoCand],
    \* ran to the end twice
    [run_dir |-> TRUE, coupler |-> NoDir, manifest_copy |-> "old",
     revs_json |-> << OldRevs >>, artifacts |-> << "old", "old" >>,
     cand |-> NoCand] }

\* histories origin/main presents to an invocation of main: no commit, one
\* commit on day 0, and a second commit at midnight of day 1
RemoteHistories == { << >>, << 1 >>, << 1, TicksPerDay >> }

\* the history both concurrent invocations see
ConcHistories == { << 1 >> }

Days == 0..MaxDay

Todays == 0..(MaxDay + 1)

\* ----------------------------------------------------------------- state
VARIABLES
  date,           \* --date, normalised (a day number)
  today,          \* datetime.now().date()
  env_only,       \* --env-only, per invocation
  hist,           \* origin/main handed to get_latest_commit_at_date
  found,          \* << >> or << its result >>
  pc,             \* position of each invocation in main()
  idx,            \* loop index (REPOS, configs) of each invocation
  repo_revs,      \* repo_revs of each invocation
  log,            \* commands each invocation has run, in order
  failed,         \* an external command of the invocation exited non-zero
  artifacts_src,  \* artifacts_src of each invocation (0: None)
  run_dir,        \* runs/amip/<date> exists
  coupler,        \* <run_dir>/ClimaCoupler.jl
  owners,         \* invocations whose copy step wrote the present copy
  manifest_copy,  \* <run_dir>/Manifest-v1.11.toml: "none", "old", "new"
  revs_json,      \* <run_dir>/repo-revs.json: << >> or << mapping >>
  artifacts,      \* <run_dir>/artifacts: << >>, or the contents at each
                  \* nesting depth (artifacts, artifacts/artifacts, ...)
  cand            \* the candidate artifact locations

inputs == << date, today, env_only >>
pure == << hist, found >>
local == << pc, idx, repo_revs, log, failed, artifacts_src >>
fs == << run_dir, coupler, owners, manifest_copy, revs_json, artifacts, cand >>
vars == << inputs, pure, local, fs >>

Raised == [rev |-> 0 - 1, timestamp |-> 0 - 1]

Cmd(c, r, v) == [cmd |-> c, repo |-> r, rev |-> v]

NoRevs == [r \in RepoSet |-> None]

InitLocal(active) ==
  /\ pc = [p \in Procs |-> IF p \in active THEN "resolve" ELSE "idle"]
  /\ idx = [p \in Procs |-> 1]
  /\ repo_revs = [p \in Procs |-> NoRevs]
  /\ log = [p \in Procs |-> << >>]
  /\ failed = [p \in Procs |-> FALSE]
  /\ artifacts_src = [p \in Procs |-> 0]

InitFs(prior) ==
  /\ run_dir = prior.run_dir
  /\ coupler = prior.coupler
  /\ owners = {}
  /\ manifest_copy = prior.manifest_copy
  /\ revs_json = prior.revs_json
  /\ artifacts = prior.artifacts
  /\ cand = prior.cand

\* one invocation of main(), after argument parsing
Init ==
  /\ date \in Days
  /\ today \in Todays
  /\ env_only \in [Procs -> BOOLEAN]
  /\ \A p \in Procs : p # 1 => ~env_only[p]
  /\ hist = << >>
  /\ found = << >>
  /\ InitLocal({1})
  /\ \E prior \in PriorStates : InitFs(prior)

\* ------------------------------------------------------------- main()
Goto(p, l) == pc' = [pc EXCEPT ![p] = l]

\* an uncaught exception ends the invocation
Abort(p) == Goto(p, "aborted")

Logged(p, c) == log' = [log EXCEPT ![p] = Append(@, c)]

\* check=True: a non-zero exit raises CalledProcessError
Fails(p) == failed' = [failed EXCEPT ![p] = TRUE]

CouplerRev(p) == repo_revs[p][REPOS[1]].rev

\* a check that never reports a missing commit
NotFoundIgnored(rev) == FALSE

\* "if rev is None" in get_repo_revs_at_date
NotFound(rev) == rev = None

\* get_repo_revs_at_date: one iteration of "for repo in REPOS", with the
\* call of get_latest_commit_at_date it makes; H is the set of histories
\* the fetch may bring
Resolve(p, H) ==
  /\ pc[p] = "resolve"
  /\ IF DateRefused(date, today)
     THEN /\ Abort(p)
          /\ UNCHANGED << idx, repo_revs, log, failed >>
     ELSE \E fetch_ok \in BOOLEAN, h \in H :
            LET repo == REPOS[idx[p]]
                rev == get_latest_commit_at_date(h, date)
            IN  /\ Logged(p, Cmd("fetch", repo, 0))
                /\ IF ~fetch_ok
                   THEN /\ Fails(p)
                        /\ Abort(p)
                        /\ UNCHANGED << idx, repo_revs >>
                   ELSE IF NotFound(rev)
                   THEN /\ Abort(p)
                        /\ UNCHANGED << idx, repo_revs, failed >>
                   ELSE /\ repo_revs' = [repo_revs EXCEPT ![p][repo] = rev]
                        /\ IF idx[p] < NumRepos
                           THEN /\ idx' = [idx EXCEPT ![p] = @ + 1]
                                /\ UNCHANGED pc
                           ELSE /\ idx' = [idx EXCEPT ![p] = 1]
                                /\ Goto(p, "mkdir")
                        /\ UNCHANGED failed
  /\ UNCHANGED << inputs, pure, artifacts_src, fs >>

\* os.makedirs(run_dir, exist_ok=True)
MakeRunDir(p) ==
  /\ pc[p] = "mkdir"
  /\ Logged(p, Cmd("mkdir", "", 0))
  /\ run_dir' = TRUE
  /\ Goto(p, "rmtree")
  /\ UNCHANGED << inputs, pure, idx, repo_revs, failed, artifacts_src,
                  coupler, owners, manifest_copy, revs_json, artifacts, cand >>

\* if os.path.exists(coupler_dir): shutil.rmtree(coupler_dir)
RemoveExisting(p) ==
  /\ pc[p] = "rmtree"
  /\ IF coupler.exists
     THEN /\ Logged(p, Cmd("rmtree", "", 0))
          /\ coupler' = NoDir
          /\ owners' = {}
     ELSE UNCHANGED << log, coupler, owners >>
  /\ Goto(p, "copy")
  /\ UNCHANGED << inputs, pure, idx, repo_revs, failed, artifacts_src,
                  run_dir, manifest_copy, revs_json, artifacts, cand >>

\* what "git archive <rev> | tar -x" leaves in dest and the status the shell
\* reports, which is tar's: archive_ok is git's exit, tar_ok is tar's, part
\* is what tar extracted before the stream ended
Extracted(rev, archive_ok, part) == IF archive_ok THEN TreeOf(rev) ELSE part

PipelineOk(archive_ok, tar_ok) == tar_ok

\* a copy that extracts somewhere else than dest_path
CopyRepoElsewhere(p) ==
  /\ pc[p] = "copy"
  /\ Logged(p, Cmd("copy", REPOS[1], CouplerRev(p)))
  /\ Goto(p, "instantiate")
  /\ UNCHANGED << inputs, pure, idx, repo_revs, failed, artifacts_src, fs >>

\* copy_repo_at_rev(repo_path, rev, dest_path)
CopyRepo(p) ==
  /\ pc[p] = "copy"
  /\ \E archive_ok \in BOOLEAN, tar_ok \in BOOLEAN,
        part \in SUBSET TreeOf(CouplerRev(p)) :
       /\ archive_ok \/ part # TreeOf(CouplerRev(p))
       /\ Logged(p, Cmd("copy", REPOS[1], CouplerRev(p)))
       /\ run_dir' = TRUE
       /\ coupler' = Dir(coupler.files
                           \cup Extracted(CouplerRev(p), archive_ok, part))
       /\ owners' = owners \cup {p}
       /\ failed' = [failed EXCEPT ![p] = @ \/ ~archive_ok \/ ~tar_ok]
       /\ IF PipelineOk(archive_ok, tar_ok)
          THEN Goto(p, "instantiate")
          ELSE Abort(p)
  /\ UNCHANGED << inputs, pure, idx, repo_revs, artifacts_src,
                  manifest_copy, revs_json, artifacts, cand >>

\* the package manager writes the manifest of the environment it is given
WritesManifest(c) == c \in {"instantiate", "add", "resolve", "add_mpi"}

\* run_julia_command(env_dir, command): c is logged, then control passes
\* to next, or the invocation aborts on a non-zero exit
Julia(p, c, next) ==
  \E ok \in BOOLEAN :
    /\ Logged(p, c)
    /\ IF ok
       THEN /\ Goto(p, next)
            /\ coupler' = IF WritesManifest(c.cmd)
                          THEN Dir(coupler.files \cup {ManifestFile})
                          ELSE coupler
            /\ UNCHANGED failed
       ELSE /\ Fails(p)
            /\ Abort(p)
            /\ UNCHANGED coupler

Instantiate(p) ==
  /\ pc[p] = "instantiate"
  /\ Julia(p, Cmd("instantiate", "", 0), "add")
  /\ idx' = [idx EXCEPT ![p] = 2]
  /\ UNCHANGED << inputs, pure, repo_revs, artifacts_src, run_dir, owners,
                  manifest_copy, revs_json, artifacts, cand >>

\* "for repo in REPOS" skipping the coordinator: Pkg.add(url, rev)
AddPackage(p) ==
  /\ pc[p] = "add"
  /\ LET repo == REPOS[idx[p]]
     IN  Julia(p, Cmd("add", repo, repo_revs[p][repo].rev),
               IF idx[p] < NumRepos THEN "add" ELSE "resolve_env")
  /\ idx' = [idx EXCEPT ![p] = IF @ < NumRepos THEN @ + 1 ELSE 1]
  /\ UNCHANGED << inputs, pure, repo_revs, artifacts_src, run_dir, owners,
                  manifest_copy, revs_json, artifacts, cand >>

ResolveEnv(p) ==
  /\ pc[p] = "resolve_env"
  /\ Julia(p, Cmd("resolve", "", 0), "add_mpi")
  /\ UNCHANGED << inputs, pure, idx, repo_revs, artifacts_src, run_dir,
                  owners, manifest_copy, revs_json, artifacts, cand >>

AddMPI(p) ==
  /\ pc[p] = "add_mpi"
  /\ Julia(p, Cmd("add_mpi", "", 0), "precompile")
  /\ UNCHANGED << inputs, pure, idx, repo_revs, artifacts_src, run_dir,
                  owners, manifest_copy, revs_json, artifacts, cand >>

Precompile(p) ==
  /\ pc[p] = "precompile"
  /\ Julia(p, Cmd("precompile", "", 0), "status")
  /\ UNCHANGED << inputs, pure, idx, repo_revs, artifacts_src, run_dir,
                  owners, manifest_copy, revs_json, artifacts, cand >>

Status(p) ==
  /\ pc[p] = "status"
  /\ Julia(p, Cmd("status", "", 0), "manifest")
  /\ UNCHANGED << inputs, pure, idx, repo_revs, artifacts_src, run_dir,
                  owners, manifest_copy, revs_json, artifacts, cand >>

\* shutil.copy2(manifest_src, manifest_dest)
CopyManifest(p) ==
  /\ pc[p] = "manifest"
  /\ Logged(p, Cmd("manifest", "", 0))
  /\ IF coupler.exists /\ ManifestFile \in coupler.files /\ run_dir
     THEN /\ manifest_copy' = "new"
          /\ Goto(p, "revs_json")
     ELSE /\ Abort(p)
          /\ UNCHANGED manifest_copy
  /\ UNCHANGED << inputs, pure, idx, repo_revs, failed, artifacts_src,
                  run_dir, coupler, owners, revs_json, artifacts, cand >>

\* an early exit that is never taken
AfterEnvIgnoringFlag(flag) == "config"

\* "if args.env_only: return"
AfterEnv(flag) == IF flag THEN "done" ELSE "config"

\* json.dump(repo_revs, f), then "if args.env_only: return"
WriteRevs(p) ==
  /\ pc[p] = "revs_json"
  /\ Logged(p, Cmd("revs_json", "", 0))
  /\ IF run_dir
     THEN /\ revs_json' = << repo_revs[p] >>
          /\ Goto(p, AfterEnv(env_only[p]))
     ELSE /\ Abort(p)
          /\ UNCHANGED revs_json
  /\ UNCHANGED << inputs, pure, idx, repo_revs, failed, artifacts_src,
                  run_dir, coupler, owners, manifest_copy, artifacts, cand >>

\* shutil.copy2(src, dest) for each of configs and for the TOML file
CopyConfig(p) ==
  /\ pc[p] = "config"
  /\ \E src_ok \in BOOLEAN :
       /\ Logged(p, Cmd("config", configs[idx[p]], 0))
       /\ IF src_ok /\ coupler.exists
          THEN /\ coupler' = Dir(coupler.files \cup {configs[idx[p]]})
               /\ IF idx[p] < Len(configs)
                  THEN /\ idx' = [idx EXCEPT ![p] = @ + 1]
                       /\ UNCHANGED pc
                  ELSE /\ idx' = [idx EXCEPT ![p] = 1]
                       /\ Goto(p, "launch")
          ELSE /\ Abort(p)
               /\ UNCHANGED << coupler, idx >>
  /\ UNCHANGED << inputs, pure, repo_revs, failed, artifacts_src, run_dir,
                  owners, manifest_copy, revs_json, artifacts, cand >>

\* subprocess.run(cmd, check=True) of run_amip.jl; the simulation writes
\* its artifacts to any of the candidate locations
Launch(p) ==
  /\ pc[p] = "launch"
  /\ \E ok \in BOOLEAN, out \in SUBSET Cands :
       /\ Logged(p, Cmd("launch", "", 0))
       /\ cand' = [c \in Cands |-> IF c \in out THEN "new" ELSE cand[c]]
       /\ IF ok /\ coupler.exists /\ "run_amip.jl" \in coupler.files
          THEN /\ Goto(p, "collect")
               /\ UNCHANGED failed
          ELSE /\ Fails(p)
               /\ Abort(p)
  /\ UNCHANGED << inputs, pure, idx, repo_revs, artifacts_src, run_dir,
                  coupler, owners, manifest_copy, revs_json, artifacts >>

Existing == { c \in Cands : cand[c] # "none" }

Min(S) == CHOOSE c \in S : \A e \in S : c <= e

\* a search that settles for the first existing candidate
SearchFirst(ex) == IF ex = {} THEN 0 ELSE Min(ex)

\* the search "for artifact_dir in artifact_dirs": the one existing
\* candidate, or 0 when it ends in one of the two warnings
Search(ex) == IF Cardinality(ex) = 1 THEN Min(ex) ELSE 0

Collect(p) ==
  /\ pc[p] = "collect"
  /\ IF Search(Existing) # 0
     THEN /\ artifacts_src' =
               [artifacts_src EXCEPT ![p] = Search(Existing)]
          /\ Goto(p, "move")
          /\ UNCHANGED log
     ELSE /\ Logged(p, Cmd("warning", "", Cardinality(Existing)))
          /\ Goto(p, "done")
          /\ UNCHANGED artifacts_src
  /\ UNCHANGED << inputs, pure, idx, repo_revs, failed, fs >>

\* shutil.move(src, dst): into dst when dst is an existing directory, and
\* an Error when dst/<name of src> exists already
MoveInto(dst, content) ==
  IF dst = << >> THEN << content >> ELSE Append(dst, content)

MoveRaises(dst) == Len(dst) >= 2

Move(p) ==
  /\ pc[p] = "move"
  /\ Logged(p, Cmd("move", output_dirs[artifacts_src[p]], 0))
  /\ IF cand[artifacts_src[p]] = "none" \/ MoveRaises(artifacts) \/ ~run_dir
     THEN /\ Abort(p)
          /\ UNCHANGED << artifacts, cand >>
     ELSE /\ artifacts' = MoveInto(artifacts, cand[artifacts_src[p]])
          /\ cand' = [cand EXCEPT ![artifacts_src[p]] = "none"]
          /\ Goto(p, "cleanup")
  /\ UNCHANGED << inputs, pure, idx, repo_revs, failed, artifacts_src,
                  run_dir, coupler, owners, manifest_copy, revs_json >>

\* shutil.rmtree(os.path.join(run_dir, "ClimaCoupler.jl"))
Cleanup(p) ==
  /\ pc[p] = "cleanup"
  /\ Logged(p, Cmd("cleanup", "", 0))
  /\ IF coupler.exists
     THEN /\ coupler' = NoDir
          /\ owners' = {}
          /\ Goto(p, "done")
     ELSE /\ Abort(p)
          /\ UNCHANGED << coupler, owners >>
  /\ UNCHANGED << inputs, pure, idx, repo_revs, failed, artifacts_src,
                  run_dir, manifest_copy, revs_json, artifacts, cand >>

Body(p) ==
  \/ MakeRunDir(p) \/ RemoveExisting(p) \/ CopyRepo(p)
  \/ Instantiate(p) \/ AddPackage(p) \/ ResolveEnv(p) \/ AddMPI(p)
  \/ Precompile(p) \/ Status(p) \/ CopyManifest(p) \/ WriteRevs(p)
  \/ CopyConfig(p) \/ Launch(p) \/ Collect(p) \/ Move(p) \/ Cleanup(p)

Next == \E p \in Procs : Resolve(p, RemoteHistories) \/ Body(p)

Spec == Init /\ [][Next]_vars

\* ------------------------------------------ get_latest_commit_at_date alone
Fresh == CHOOSE prior \in PriorStates : ~prior.run_dir

InitResolve ==
  /\ date \in Days
  /\ today \in Todays
  /\ env_only = [p \in Procs |-> FALSE]
  /\ hist \in Histories
  /\ found = << >>
  /\ InitLocal({})
  /\ InitFs(Fresh)

\* a call get_latest_commit_at_date(repo_path, date) on a clone whose
\* origin/main is hist
CallLatest ==
  /\ found = << >>
  /\ found' = IF DateRefused(date, today)
              THEN << Raised >>
              ELSE << get_latest_commit_at_date(hist, date) >>
  /\ UNCHANGED << inputs, hist, local, fs >>

NextResolve == CallLatest

SpecResolve == InitResolve /\ [][NextResolve]_vars

\* ------------------------------------- two invocations for the same date
InitConc ==
  /\ date = 0
  /\ today = 1
  /\ env_only = [p \in Procs |-> FALSE]
  /\ hist = << >>
  /\ found = << >>
  /\ InitLocal(Procs)
  /\ InitFs(Fresh)

NextConc == \E p \in Procs : Resolve(p, ConcHistories) \/ Body(p)

SpecConc == InitConc /\ [][NextConc]_vars

\* ------------------------------------------------------------ properties
Cmds(p) == { log[p][k].cmd : k \in DOMAIN log[p] }

LastCmd(p) == IF log[p] = << >> THEN "" ELSE log[p][Len(log[p])].cmd

Ended(p) == pc[p] \in {"done", "aborted"}

Resolved(p) == \A r \in RepoSet : repo_revs[p][r] # None

\* the commands of environment setup and of the later stages
EnvCmds ==
  {"mkdir", "rmtree", "copy", "instantiate", "add", "resolve", "add_mpi",
   "precompile", "status", "manifest", "revs_json"}

RunCmds == {"config", "launch", "warning", "move", "cleanup"}

\* C1: with --date equal to or later than the current date, every step the
\* invocation takes aborts it, runs no command (no fetch, no copy, no
\* manifest or repo-revs.json written) and leaves the filesystem as it was.
C1_FutureDateRefused ==
  [][date >= today =>
       /\ pc'[1] = "aborted"
       /\ log' = log
       /\ fs' = fs]_vars

C1_Witness ==
  /\ date >= today
  /\ pc[1] = "aborted"
  /\ log[1] = << >>

\* C3: a command of environment setup (or of any later stage) has run only
\* if all six repositories of REPOS have a resolved commit; an invocation
\* in which a repository did not resolve has run nothing but fetches and
\* has written no coordinator copy.
C3_EnvOnlyAfterAllResolved ==
  \A p \in Procs :
    /\ Cmds(p) \cap (EnvCmds \cup RunCmds) # {} => Resolved(p)
    /\ pc[p] \notin {"idle", "resolve", "aborted"} => Resolved(p)
    /\ ~Resolved(p) => p \notin owners

C3_Witness ==
  /\ pc[1] = "aborted"
  /\ ~failed[1]
  /\ date < today
  /\ idx[1] > 1
  /\ Cmds(1) = {"fetch"}
  /\ ~Resolved(1)

\* C7: after a successful simulation, when zero or both candidate
\* locations exist, the next step logs a warning and ends the invocation
\* normally, and the filesystem (candidates, <run_dir>/artifacts, the
\* coordinator copy) is left exactly as the simulation left it.
C7_AmbiguousArtifactsLeftAlone ==
  [][(pc[1] = "collect" /\ Cardinality(Existing) # 1) =>
       /\ pc'[1] = "done"
       /\ fs' = fs
       /\ log'[1] = Append(log[1],
                           Cmd("warning", "", Cardinality(Existing)))]_vars

C7_Witness ==
  /\ pc[1] = "done"
  /\ LastCmd(1) = "warning"
  /\ Cardinality(Existing) = 2
  /\ coupler.exists

\* C9: an invocation with --env-only never enters configuration, launch or
\* collection; when it ends normally the manifest copy and repo-revs.json
\* (all six repositories, each with its resolved commit and timestamp)
\* are written, its last command was the write of repo-revs.json, and the
\* coordinator copy is still there.
C9_EnvOnlyStopsAfterSetup ==
  \A p \in Procs :
    env_only[p] =>
      /\ pc[p] \notin {"config", "launch", "collect", "move", "cleanup"}
      /\ Cmds(p) \cap RunCmds = {}
      /\ pc[p] = "done" =>
           /\ manifest_copy = "new"
           /\ revs_json = << repo_revs[p] >>
           /\ Resolved(p)
           /\ LastCmd(p) = "revs_json"
           /\ coupler.exists

C9_Witness ==
  /\ env_only[1]
  /\ pc[1] = "done"

\* the commits of hist made on day d or earlier
AtOrBefore(d) == { k \in DOMAIN hist : DayOf(hist[k]) <= d }

\* C2: get_latest_commit_at_date returns the most recent commit made at or
\* before the end of the given day, never one made after that day, and
\* None exactly when origin/main has no commit at or before the end of it.
C2_LatestAtOrBeforeEndOfDay ==
  (found # << >> /\ found[1] # Raised) =>
    /\ found[1] = None <=> AtOrBefore(date) = {}
    /\ found[1] # None =>
         /\ DayOf(found[1].timestamp) <= date
         /\ \A k \in AtOrBefore(date) : hist[k] <= found[1].timestamp

\* position of a command in the order main() runs its stages
Ord(c) ==
  CASE c = "fetch" -> 1
    [] c = "mkdir" -> 2
    [] c = "rmtree" -> 3
    [] c = "copy" -> 4
    [] c = "instantiate" -> 5
    [] c = "add" -> 6
    [] c = "resolve" -> 7
    [] c = "add_mpi" -> 8
    [] c = "precompile" -> 9
    [] c = "status" -> 10
    [] c = "manifest" -> 11
    [] c = "revs_json" -> 12
    [] c = "config" -> 13
    [] c = "launch" -> 14
    [] c = "warning" -> 15
    [] c = "move" -> 15
    [] c = "cleanup" -> 16

InOrder(p) ==
  /\ \A j, k \in DOMAIN log[p] :
       j < k => /\ Ord(log[p][j].cmd) <= Ord(log[p][k].cmd)
                /\ log[p][j].cmd \notin {"fetch", "add", "config"}
                     => log[p][j].cmd # log[p][k].cmd
  /\ \A k \in DOMAIN log[p] :
       log[p][k].cmd = "add" =>
         /\ log[p][k].repo # REPOS[1]
         /\ log[p][k].rev = repo_revs[p][log[p][k].repo].rev

\* the stages run in the order of main(), each command once
StagesInOrder == \A p \in Procs : InOrder(p)

\* C4: the commands of an invocation run in the order resolve, assemble
\* (copy, instantiate, add each non-coordinator repository at its resolved
\* revision, resolve, add MPI, precompile, status, manifest, repo-revs.json),
\* install configuration, launch, collect, clean up; and once an external
\* command of the invocation has failed, the invocation runs no further
\* command.
C4_InOrderAndFailStop ==
  [][\A p \in Procs :
       /\ InOrder(p)'
       /\ failed[p] => log'[p] = log[p]]_vars

\* C5: an invocation whose simulation exited non-zero ran no artifact
\* collection, and at its end the run directory has no artifacts
\* subdirectory, whatever an earlier invocation left there.
C5_NoArtifactsAfterFailedRun ==
  \A p \in Procs :
    (pc[p] = "aborted" /\ LastCmd(p) = "launch") =>
      /\ Cmds(p) \cap {"warning", "move", "cleanup"} = {}
      /\ artifacts = << >>

\* C6: an invocation whose simulation succeeded and found exactly one
\* candidate location ends with that directory as <run_dir>/artifacts
\* itself (nothing nested under it), the candidate location gone and the
\* coordinator copy deleted.
C6_SingleCandidateMoved ==
  \A p \in Procs :
    (artifacts_src[p] # 0 /\ Ended(p)) =>
      /\ pc[p] = "done"
      /\ Len(artifacts) = 1
      /\ cand[artifacts_src[p]] = "none"
      /\ ~coupler.exists

\* C8: when the copy step has completed, the coordinator copy holds exactly
\* the tree of the coordinator repository at the resolved commit, whatever
\* an earlier invocation left in <run_dir>/ClimaCoupler.jl.
C8_CopyIsExactlyTheTree ==
  pc[1] = "instantiate" =>
    /\ coupler.exists
    /\ coupler.files = TreeOf(CouplerRev(1))

\* the part of main() in which an invocation uses its coordinator copy:
\* from the end of its copy step to the end of the simulation launch
UseWindow ==
  {"instantiate", "add", "resolve_env", "add_mpi", "precompile", "status",
   "manifest", "revs_json", "config", "launch"}

CopyLost(p) == pc[p] \in UseWindow /\ (~coupler.exists \/ p \notin owners)

Removed(q) == Cmds(q) \cap {"rmtree", "cleanup"} # {}

\* C10: nothing keeps two invocations for the same date apart: the state in
\* which one invocation is inside its use of the coordinator copy while the
\* copy is gone or is no longer the one it wrote is reachable (C10_Race),
\* and an invocation is in that state only when the other invocation has
\* removed the shared directory at its re-assembly step or its cleanup.
C10_CopyLostOnlyToOtherInvocation ==
  \A p \in Procs : CopyLost(p) => \E q \in Procs \ {p} : Removed(q)

C10_Race ==
  \E p \in Procs : \E q \in Procs \ {p} :
    /\ CopyLost(p)
    /\ Removed(q)
    /\ ~failed[p]

====
